---- MODULE Spec2Model ----
(***************************************************************************)
(* Batch job lifecycle of the 9roofupload function app.                    *)
(*                                                                         *)
(*   uploadToOpenAi/__init__.py    main(myblob): submits a .jsonl file as  *)
(*       a batch job and saves the batch response as a blob of the         *)
(*       uploadtoopenai-response container (the Job Record Store).         *)
(*   trackbatchstatus/__init__.py  main(timer): the sweep.  For every blob *)
(*       of the response container it retrieves the batch, overwrites the  *)
(*       blob with the new status, saves the output / error file to the    *)
(*       batchjob-results container and moves the blob to the              *)
(*       finalized-batches container.                                      *)
(*                                                                         *)
(* Every storage call and every call to the compute service either         *)
(* succeeds or raises; the sweep's position is kept per storage / remote   *)
(* call so that a failure can hit each call separately.                    *)
(***************************************************************************)
EXTENDS Integers, Sequences, FiniteSets, TLC

\* ------------------------------------------------------------------ bounds
\* Number of sweeps (timer invocations) a behaviour may start.
MaxSweeps == 2
\* Number of batch jobs the compute service may be asked to create.
MaxBatches == 2
\* Number of times the compute service changes the state of a job.
MaxRemoteChanges == 2

\* ------------------------------------------------------------- value sets
None == "None"
\* A response blob without an "id" key: response_data.get("id") is falsy.
NoId == 0

\* Blob contents.  exists: the blob is in the container; json: json.loads
\* parses it; id, status: the keys of the parsed dict the sweep uses.
Json(id, status) == [exists |-> TRUE, json |-> TRUE, id |-> id, status |-> status]
Absent == [exists |-> FALSE, json |-> FALSE, id |-> NoId, status |-> None]
Garbage == [exists |-> TRUE, json |-> FALSE, id |-> NoId, status |-> None]

\* The timer invocations that may exist at once; Spec runs them one at a time.
Sweeps == {"s1", "s2"}

\* Blob names of the response container, in the order list_blobs yields them
\* (by name).  "a" is the response blob of input a.jsonl, "b" of b.jsonl.
BlobOrder == <<"a", "b">>
BlobNames == {BlobOrder[i] : i \in 1..Len(BlobOrder)}

BatchIds == 1..MaxBatches

\* Values of batch_response.status.  The sweep treats the three of Finalized
\* as final and everything else as still in progress.
Finalized == {"completed", "failed", "canceled"}
Status == {"validating", "in_progress", "expired"} \cup Finalized

\* What batches.retrieve returns for a job: the sweep reads status,
\* output_file_id (when completed) and error_file_id (when failed).
BatchResponses ==
    {[status |-> st, output_file_id |-> o, error_file_id |-> e] :
        st \in Status, o \in {None, "file-out"}, e \in {None, "file-err"}}

\* The responses the model lets the service give: a file id the sweep never
\* reads (output of a job not completed, error of a job not failed) is left
\* None.
RemoteStates ==
    {r \in BatchResponses :
        /\ (r.output_file_id # None => r.status = "completed")
        /\ (r.error_file_id # None => r.status = "failed")}

NoResponse == [status |-> None, output_file_id |-> None, error_file_id |-> None]


FileTypes == {"output", "error"}
\* f"{batch_id}-{file_type}.jsonl"
ResultKeys == BatchIds \X FileTypes
Folders == {"completed", "failed", "canceled", "others"}
\* f"{folder_name}/{os.path.basename(blob_name)}"
FinalizedKeys == Folders \X BlobNames

\* Outcome of the last processing of a blob in a sweep (bookkeeping only).
Outcomes == {"unlisted", "listed", "read_error", "parse_error", "skipped",
             "poll_error", "unknown_job", "update_error", "pending",
             "download_error", "upload_error", "delete_error", "moved"}

VARIABLES
    \* ---- durable state
    response_container,   \* blob name -> blob content
    result_container,     \* set of ResultKeys holding a saved file
    finalized_container,  \* FinalizedKeys -> blob content
    remote,               \* batch id -> NoResponse | RemoteStates
    nbatches,             \* batch ids the service has handed out
    \* ---- one sweep (locals of trackbatchstatus.main)
    pc,                   \* sweep -> position
    no,                   \* sweep -> number of the invocation it is running
    todo,                 \* sweep -> blobs list_blobs has yet to yield
    blob,                 \* sweep -> blob.name
    response_data,        \* sweep -> json.loads(response_content)
    batch_response,       \* sweep -> client.batches.retrieve(batch_id)
    \* ---- bookkeeping for the properties
    sweepNo,              \* sweeps started
    changes,              \* remote state changes so far
    listing,              \* sweep -> what list_blobs returned
    outcome,              \* sweep -> blob name -> Outcomes
    artifact,             \* sweep -> how save_batch_file ended for blob[s]
    fetches,              \* ResultKeys -> successful files.content calls
    saves,                \* ResultKeys -> successful uploads to results
    moves,                \* batch id -> uploads of its record to the archive
    fetchedIn,            \* sweep number -> ResultKeys fetched in that sweep
    movedIn,              \* sweep number -> batch ids it wrote to the archive
    stableSince,          \* first sweep number started after the last
                          \* change of the compute service's state
    overlapped            \* an invocation has started while another ran

vars == <<response_container, result_container, finalized_container, remote,
          nbatches, pc, no, todo, blob, response_data, batch_response,
          sweepNo, changes, listing, outcome, artifact, fetches, saves, moves,
          fetchedIn, movedIn, stableSince, overlapped>>

durable == <<response_container, result_container, finalized_container>>
service == <<remote, nbatches, changes>>
locals == <<blob, response_data, batch_response>>
counts == <<fetches, saves, moves, fetchedIn, movedIn>>
book == <<sweepNo, listing, overlapped>>

\* ------------------------------------------------------------------- Init
\* The containers exist before the functions are deployed.  The response
\* container may already hold blobs the functions did not write: one
\* json.loads cannot parse, or a JSON object without an "id".
ForeignBlobs == {Absent, Garbage, Json(NoId, "validating")}

Init ==
    /\ response_container \in [BlobNames -> ForeignBlobs]
    /\ result_container = {}
    /\ finalized_container = [k \in FinalizedKeys |-> Absent]
    /\ remote = [b \in BatchIds |-> NoResponse]
    /\ nbatches = 0
    /\ pc = [s \in Sweeps |-> "idle"]
    /\ no = [s \in Sweeps |-> 0]
    /\ todo = [s \in Sweeps |-> <<>>]
    /\ blob = [s \in Sweeps |-> None]
    /\ response_data = [s \in Sweeps |-> Absent]
    /\ batch_response = [s \in Sweeps |-> NoResponse]
    /\ sweepNo = 0
    /\ changes = 0
    /\ listing = [s \in Sweeps |-> <<>>]
    /\ outcome = [s \in Sweeps |-> [n \in BlobNames |-> "unlisted"]]
    /\ artifact = [s \in Sweeps |-> "none"]
    /\ fetches = [k \in ResultKeys |-> 0]
    /\ saves = [k \in ResultKeys |-> 0]
    /\ moves = [b \in BatchIds |-> 0]
    /\ fetchedIn = <<>>
    /\ movedIn = <<>>
    /\ stableSince = 1
    /\ overlapped = FALSE

\* ------------------------------------------------- the compute service
\* The service moves a job to another state; the sweep has no say in which.
RemoteChange(b) ==
    /\ changes < MaxRemoteChanges
    /\ remote[b] # NoResponse
    /\ \E r \in RemoteStates \ {remote[b]} :
           remote' = [remote EXCEPT ![b] = r]
    /\ changes' = changes + 1
    /\ stableSince' = sweepNo + 1
    /\ UNCHANGED <<durable, nbatches, pc, no, todo, locals, book, outcome,
                   artifact, counts>>

\* ----------------------------------------------------------- submission
\* response_blob_name = f"{filename.replace('.jsonl', '')}-response.json":
\* the blob name is a function of the input file's name alone.
ResponseBlobName(filename) == filename

\* uploadToOpenAi.main for the input <filename>.jsonl, from batches.create
\* on.  (A run that ends before batches.create changes nothing.)  saved
\* tells whether the final upload_blob succeeded; when it raises, the
\* handler logs and returns, and the job exists without a response blob.
UploadToOpenAi(filename) ==
    /\ nbatches < MaxBatches
    /\ LET batch_id == nbatches + 1
           created == [status |-> "validating", output_file_id |-> None,
                       error_file_id |-> None]
       IN /\ nbatches' = batch_id
          /\ remote' = [remote EXCEPT ![batch_id] = created]
          /\ \E saved \in BOOLEAN :
                response_container' =
                    IF saved
                    THEN [response_container EXCEPT
                            ![ResponseBlobName(filename)] =
                                Json(batch_id, created.status)]
                    ELSE response_container
    /\ stableSince' = sweepNo + 1
    /\ UNCHANGED <<result_container, finalized_container, changes, pc, no,
                   todo, locals, book, outcome, artifact, counts>>


\* ------------------------------------------------------------ the sweep
\* Where the for loop of line 33 goes next: the next blob, or out of the loop.
NextPc(rest) == IF rest = <<>> THEN "idle" ELSE "download"

Mark(s, n, o) == outcome' = [outcome EXCEPT ![s][n] = o]

\* lines 78-79: an exception outside the inner try leaves the for loop; the
\* blobs not yet yielded are not processed by this invocation.
OuterExcept(s) ==
    /\ pc' = [pc EXCEPT ![s] = "idle"]
    /\ todo' = [todo EXCEPT ![s] = <<>>]

\* What the inner except would do if it ended the invocation as the outer
\* one does.
InnerExceptEndsSweep(s) ==
    /\ pc' = [pc EXCEPT ![s] = "idle"]
    /\ todo' = [todo EXCEPT ![s] = <<>>]

\* What the inner except would do if the error were swallowed where it
\* arose and main went on to the move at line 66.
InnerExceptFallsThrough(s) ==
    /\ pc' = [pc EXCEPT ![s] = "move"]
    /\ todo' = todo

\* lines 75-76: the inner except logs the error; the for loop goes on with
\* the next blob.
InnerExcept(s) ==
    /\ pc' = [pc EXCEPT ![s] = NextPc(todo[s])]
    /\ todo' = todo

\* lines 14-33: a timer invocation builds its clients and lists the blobs of
\* the response container.  listed = FALSE: that raised (outer except).
ListBlobs(s) ==
    /\ pc[s] = "idle"
    /\ sweepNo < MaxSweeps
    /\ \E listed \in BOOLEAN :
         LET names == IF listed
                      THEN SelectSeq(BlobOrder,
                                     LAMBDA n : response_container[n].exists)
                      ELSE <<>>
         IN /\ todo' = [todo EXCEPT ![s] = names]
            /\ listing' = [listing EXCEPT ![s] = names]
            /\ pc' = [pc EXCEPT ![s] = NextPc(names)]
            /\ outcome' = [outcome EXCEPT ![s] =
                  [n \in BlobNames |->
                      IF \E i \in 1..Len(names) : names[i] = n
                      THEN "listed" ELSE "unlisted"]]
    /\ sweepNo' = sweepNo + 1
    /\ no' = [no EXCEPT ![s] = sweepNo + 1]
    /\ overlapped' = (overlapped \/ \E t \in Sweeps \ {s} : pc[t] # "idle")
    /\ fetchedIn' = Append(fetchedIn, {})
    /\ movedIn' = Append(movedIn, {})
    /\ UNCHANGED <<durable, service, locals, artifact, fetches, saves, moves,
                   stableSince>>

\* Line 40 as it would be if the check of the batch id were missing.
HasBatchIdUnchecked(content) == TRUE

\* lines 39-40: batch_id = response_data.get("id"); if not batch_id
HasBatchId(content) == content.id # NoId

\* lines 33-42: the loop yields the next blob; download_blob, json.loads and
\* the batch id check.  These are outside the inner try: when one raises,
\* the outer except ends the invocation.
Download(s) ==
    /\ pc[s] = "download"
    /\ LET n == Head(todo[s])
           rest == Tail(todo[s])
           content == response_container[n]
       IN /\ blob' = [blob EXCEPT ![s] = n]
          /\ \E read \in BOOLEAN :
               IF ~read \/ ~content.exists
               THEN \* download_blob raised (storage error, or blob gone)
                    /\ OuterExcept(s)
                    /\ Mark(s, n, "read_error")
                    /\ UNCHANGED <<response_data>>
               ELSE IF ~content.json
               THEN \* json.loads raised
                    /\ OuterExcept(s)
                    /\ Mark(s, n, "parse_error")
                    /\ UNCHANGED <<response_data>>
               ELSE /\ response_data' = [response_data EXCEPT ![s] = content]
                    /\ todo' = [todo EXCEPT ![s] = rest]
                    /\ IF ~HasBatchId(content)
                       THEN \* line 40-42: warning, continue
                            /\ pc' = [pc EXCEPT ![s] = NextPc(rest)]
                            /\ Mark(s, n, "skipped")
                       ELSE /\ pc' = [pc EXCEPT ![s] = "retrieve"]
                            /\ UNCHANGED outcome
    /\ artifact' = [artifact EXCEPT ![s] = "none"]
    /\ UNCHANGED <<durable, service, no, batch_response, book, counts,
                   stableSince>>

\* lines 45-52: batches.retrieve and files.retrieve.  answer says how the
\* service answers: with the job's state, with a transient error (network,
\* 5xx) or with "no such batch"; both errors raise into the inner except.
Retrieve(s) ==
    /\ pc[s] = "retrieve"
    /\ \E answer \in {"ok", "transient", "unknown"} :
         IF answer = "ok"
         THEN /\ response_data[s].id \in BatchIds
              /\ remote[response_data[s].id] # NoResponse
              /\ batch_response' =
                    [batch_response EXCEPT ![s] = remote[response_data[s].id]]
              /\ pc' = [pc EXCEPT ![s] = "update"]
              /\ UNCHANGED <<todo, outcome>>
         ELSE /\ InnerExcept(s)
              /\ Mark(s, blob[s],
                      IF answer = "transient" THEN "poll_error"
                                              ELSE "unknown_job")
              /\ UNCHANGED batch_response
    /\ UNCHANGED <<durable, service, no, blob, response_data, book, counts,
                   artifact, stableSince>>

\* Line 67 as it would be if canceled were left out.
IsFinalizedWithoutCanceled(status) == status \in {"completed", "failed"}

\* Line 67 as it would be if in_progress were taken as final too.
IsFinalizedInProgressToo(status) == status \in Finalized \cup {"in_progress"}

\* line 67: the statuses the sweep takes as final.
IsFinalized(status) == status \in Finalized

\* lines 59-64: the statuses for which a file is saved, with its kind.
SavesFile(status) == status \in {"completed", "failed"}
FileType(status) == IF status = "completed" THEN "output" ELSE "error"
FileId(response) == IF response.status = "completed"
                    THEN response.output_file_id
                    ELSE response.error_file_id

\* lines 54-57, 73: response_data["status"] = status, then upload_blob with
\* overwrite.  written = FALSE: the upload raised (inner except).
Update(s) ==
    /\ pc[s] = "update"
    /\ LET status == batch_response[s].status
           data == Json(response_data[s].id, status)
       IN /\ response_data' = [response_data EXCEPT ![s] = data]
          /\ \E written \in BOOLEAN :
               IF written
               THEN /\ response_container' =
                          [response_container EXCEPT ![blob[s]] = data]
                    /\ todo' = todo
                    /\ IF SavesFile(status)
                       THEN pc' = [pc EXCEPT ![s] = "save"] /\ UNCHANGED outcome
                       ELSE IF IsFinalized(status)
                       THEN pc' = [pc EXCEPT ![s] = "move"] /\ UNCHANGED outcome
                       ELSE /\ pc' = [pc EXCEPT ![s] = NextPc(todo[s])]
                            /\ Mark(s, blob[s], "pending")
               ELSE /\ InnerExcept(s)
                    /\ Mark(s, blob[s], "update_error")
                    /\ UNCHANGED response_container
    /\ UNCHANGED <<result_container, finalized_container, service, no, blob,
                   batch_response, book, counts, artifact, stableSince>>

\* lines 83-107: save_batch_file.  No file id: a warning and return.
\* Otherwise files.content, then upload_blob to the results container with
\* overwrite.  Every exception is caught and logged inside the function, so
\* main goes on to line 66 whatever happened here.
SaveBatchFile(s) ==
    /\ pc[s] = "save"
    /\ LET file_id == FileId(batch_response[s])
           key == <<response_data[s].id, FileType(batch_response[s].status)>>
       IN \E how \in {"no_file", "fetch_error", "save_error", "saved"} :
            /\ (how = "no_file") <=> (file_id = None)
            /\ artifact' = [artifact EXCEPT ![s] = how]
            /\ IF how \in {"save_error", "saved"}
               THEN /\ fetches' = [fetches EXCEPT ![key] = @ + 1]
                    /\ fetchedIn' = [fetchedIn EXCEPT ![no[s]] = @ \cup {key}]
               ELSE UNCHANGED <<fetches, fetchedIn>>
            /\ IF how = "saved"
               THEN /\ result_container' = result_container \cup {key}
                    /\ saves' = [saves EXCEPT ![key] = @ + 1]
               ELSE UNCHANGED <<result_container, saves>>
    /\ pc' = [pc EXCEPT ![s] = "move"]
    /\ UNCHANGED <<response_container, finalized_container, service, no, todo,
                   locals, book, outcome, moves, movedIn, stableSince>>

\* folder_map as it would be with only the "completed" entry.
FolderNameCompletedOnly(status) ==
    IF status = "completed" THEN status ELSE "others"

\* lines 135-140: folder_map.get(status, "others")
FolderName(status) ==
    IF status \in {"completed", "failed", "canceled"} THEN status ELSE "others"

\* Line 70 as it would be if the status write of line 56 were made once more
\* after move_to_finalized has returned.
AfterMoveWritesStatusAgain(s) == "update"

\* lines 70-71, 33: move_to_finalized has returned; the for loop goes on.
AfterMove(s) == NextPc(todo[s])

\* lines 130-155: move_to_finalized.  download_blob of the source, upload_blob
\* to <folder>/<blob name> with overwrite, delete_blob of the source; the
\* first call that raises ends the function (its except logs), and main goes
\* on with the next blob.
MoveToFinalized(s) ==
    /\ pc[s] = "move"
    /\ LET key == <<FolderName(batch_response[s].status), blob[s]>>
           blob_content == response_container[blob[s]]
       IN \E how \in {"download_error", "upload_error", "delete_error", "moved"} :
            /\ ~blob_content.exists => how = "download_error"
            /\ Mark(s, blob[s], how)
            /\ IF how \in {"delete_error", "moved"}
               THEN /\ finalized_container' =
                          [finalized_container EXCEPT ![key] = blob_content]
                    /\ moves' = [moves EXCEPT ![blob_content.id] = @ + 1]
                    /\ movedIn' = [movedIn EXCEPT ![no[s]] =
                                      @ \cup {blob_content.id}]
               ELSE UNCHANGED <<finalized_container, moves, movedIn>>
            /\ IF how = "moved"
               THEN response_container' =
                        [response_container EXCEPT ![blob[s]] = Absent]
               ELSE UNCHANGED response_container
    /\ pc' = [pc EXCEPT ![s] = AfterMove(s)]
    /\ UNCHANGED <<result_container, service, no, todo, locals, book, artifact,
                   fetches, saves, fetchedIn, stableSince>>

\* --------------------------------------------------------- specification
\* The timer starts an invocation when the previous one has returned: one
\* sweep at a time.
Sequential == {"s1"}

Sweep(s) ==
    \/ ListBlobs(s)
    \/ Download(s)
    \/ Retrieve(s)
    \/ Update(s)
    \/ SaveBatchFile(s)
    \/ MoveToFinalized(s)

Next ==
    \/ \E filename \in BlobNames : UploadToOpenAi(filename)
    \/ \E b \in BatchIds : RemoteChange(b)
    \/ \E s \in Sequential : Sweep(s)

Spec == Init /\ [][Next]_vars

\* Nothing in main keeps the timer from starting an invocation while another
\* is still running (a second host instance, or a run that outlasts the
\* schedule): the invocations interleave call by call.  Each invocation has
\* locals of its own, taken from InvocationOrder in turn.  The
\* compute service changes the state of a job before the first invocation
\* only: the invocations meet a job whose state has settled.
InvocationOrder == <<"s1", "s2">>

\* The response container starts empty.
InitOverlap ==
    /\ Init
    /\ response_container = [n \in BlobNames |-> Absent]

NextOverlap ==
    \/ \E filename \in BlobNames : UploadToOpenAi(filename)
    \/ \E b \in BatchIds : RemoteChange(b) /\ sweepNo = 0
    \/ \E s \in Sweeps :
          Sweep(s) /\ (pc[s] = "idle" =>
                          s = InvocationOrder[(sweepNo % Len(InvocationOrder)) + 1])

SpecOverlap == InitOverlap /\ [][NextOverlap]_vars

\* ------------------------------------------------------------ properties
\* Sweep s has returned from an invocation.
SweepOver(s) == pc[s] = "idle" /\ no[s] > 0

\* Sweep s has just finished the loop body for blob[s], which ended as o; its
\* locals still hold that blob's values.
JustProcessed(s, o) ==
    /\ pc[s] \in {"idle", "download"}
    /\ blob[s] # None
    /\ outcome[s][blob[s]] = o

\* Position of a status in the transition graph
\* Submitted/Validating -> InProgress -> terminal.
Rank(status) ==
    CASE status = "validating" -> 1
      [] status = "in_progress" -> 2
      [] OTHER -> 3

\* C1: the status stored for a job never regresses: as long as a response
\* blob holds the same job, a step never replaces its status by one of lower
\* rank, and never replaces a final status by another status.
C1_StatusNeverRegresses ==
    [][\A n \in BlobNames :
         LET old == response_container[n]
             new == response_container'[n]
         IN (old.json /\ new.json /\ old.id # NoId /\ new.id = old.id) =>
               /\ Rank(new.status) >= Rank(old.status)
               /\ (IsFinalized(old.status) => new.status = old.status)]_vars

\* C2: two sweeps in immediate succession with the compute service unchanged
\* since before the first: when the second returns, it has written no
\* archive entry for a job the first had written one for, and has fetched no
\* file the first had fetched.
C2_SweepTwiceIdempotent ==
    \A s \in Sweeps :
        (SweepOver(s) /\ no[s] = sweepNo /\ sweepNo >= 2
                      /\ stableSince <= sweepNo - 1) =>
            /\ movedIn[sweepNo] \cap movedIn[sweepNo - 1] = {}
            /\ fetchedIn[sweepNo] \cap fetchedIn[sweepNo - 1] = {}

\* C3: a result file is fetched from the compute service and written to the
\* results container at most once per (batch id, kind).
C3_ArtifactFetchedAtMostOnce ==
    \A k \in ResultKeys : fetches[k] <= 1 /\ saves[k] <= 1

\* C4: the record of a job is written to the archive at most once.
C4_ArchivedAtMostOnce ==
    \A b \in BatchIds : moves[b] <= 1

\* C5: when the poll returned completed with an output file id and the blob
\* was moved, the output file is in the results container (written once) and
\* the blob's record is in the archive under completed.
C5_CompletedHasArtifact ==
    \A s \in Sweeps :
        (/\ JustProcessed(s, "moved")
         /\ batch_response[s].status = "completed"
         /\ batch_response[s].output_file_id # None) =>
            /\ <<response_data[s].id, "output">> \in result_container
            /\ saves[<<response_data[s].id, "output">>] = 1
            /\ finalized_container[<<"completed", blob[s]>>].id = response_data[s].id

\* C6: when the poll returned completed without an output file id, the
\* record is archived under failed with status failed, and not under
\* completed.
C6_CompletedWithoutOutputIsFailed ==
    \A s \in Sweeps :
        (/\ JustProcessed(s, "moved")
         /\ batch_response[s].status = "completed"
         /\ batch_response[s].output_file_id = None) =>
            /\ finalized_container[<<"failed", blob[s]>>] =
                   Json(response_data[s].id, "failed")
            /\ finalized_container[<<"completed", blob[s]>>].id # response_data[s].id

\* C7: when the poll failed with "no such batch", the record has status
\* failed and is archived under failed; it is no longer in the response
\* container.
C7_UnknownJobIsFailed ==
    \A s \in Sweeps :
        JustProcessed(s, "unknown_job") =>
            /\ finalized_container[<<"failed", blob[s]>>] =
                   Json(response_data[s].id, "failed")
            /\ response_container[blob[s]].id # response_data[s].id

\* The blobs of sweep s's listing whose turn came: the loop body started
\* for them.
Reached(s) == {n \in BlobNames : outcome[s][n] \notin {"unlisted", "listed"}}

\* C8: a transient error while polling one blob does not keep the sweep from
\* the blobs listed after it: when the sweep has returned, every blob listed
\* after one whose poll failed has had its turn, unless reading a blob in
\* between ended the invocation.
C8_TransientPollErrorIsIsolated ==
    \A s \in Sweeps :
        SweepOver(s) =>
            \A i \in 1..Len(listing[s]) : \A j \in (i + 1)..Len(listing[s]) :
                (/\ outcome[s][listing[s][i]] = "poll_error"
                 /\ \A k \in (i + 1)..(j - 1) :
                        outcome[s][listing[s][k]] \notin
                            {"read_error", "parse_error"}) =>
                    listing[s][j] \in Reached(s)

\* A sweep has returned in which the poll of "a" failed transiently and "b",
\* listed after it, was polled, updated and moved to the archive.
C8_Witness ==
    \E s \in Sweeps :
        /\ SweepOver(s)
        /\ listing[s] = <<"a", "b">>
        /\ outcome[s]["a"] = "poll_error"
        /\ outcome[s]["b"] = "moved"
        /\ response_container["a"].exists
        /\ ~response_container["b"].exists
        /\ \E f \in Folders : finalized_container[<<f, "b">>].exists

\* C9: no failure while processing one blob ends the sweep: when the sweep
\* has returned, every blob it listed has had its turn.
C9_RecordFailureNeverAbortsSweep ==
    \A s \in Sweeps :
        SweepOver(s) =>
            \A i \in 1..Len(listing[s]) : listing[s][i] \in Reached(s)

\* C10: when a step of the archival of a blob failed (fetching or saving the
\* file, or a step of the move), the blob is still in the response container
\* with its final status.
C10_ArchivalFailureKeepsRecord ==
    \A s \in Sweeps :
        (/\ pc[s] \in {"idle", "download"}
         /\ blob[s] # None
         /\ outcome[s][blob[s]] \in {"moved", "download_error", "upload_error",
                                     "delete_error"}
         /\ \/ artifact[s] \in {"fetch_error", "save_error"}
            \/ outcome[s][blob[s]] # "moved") =>
            response_container[blob[s]] =
                Json(response_data[s].id, batch_response[s].status)

\* The record of job b is in the archive and no blob of the response
\* container holds it.
Archived(b) ==
    /\ \E k \in FinalizedKeys :
          finalized_container[k].exists /\ finalized_container[k].id = b
    /\ \A n \in BlobNames :
          ~(response_container[n].exists /\ response_container[n].id = b)

\* C11 (convergence, the "and stays so" half, which a finite run decides):
\* once the record of a job whose remote status is final is in the archive
\* and gone from the response container, it remains so in every later state.
C11_ArchivedStaysArchived ==
    [][\A b \in BatchIds :
         (IsFinalized(remote[b].status) /\ Archived(b)) => Archived(b)']_vars

\* The statuses of the transition graph that are not terminal (Submitted and
\* Validating are both the service's "validating").
NonTerminal == {"validating", "in_progress"}

\* C12: when the poll returned a non-terminal status and the write of the
\* blob did not raise, the step that ends the processing of the blob stores
\* that status in the blob, leaves the results container and the archive as
\* they were, fetches nothing, and takes the sweep to the next blob; the blob
\* is not among those the sweep has yet to process, so it is polled once.
C12_NonTerminalStaysPending ==
    [][\A s \in Sweeps :
         (/\ pc[s] = "update"
          /\ pc'[s] # "update"
          /\ batch_response[s].status \in NonTerminal
          /\ outcome'[s][blob[s]] # "update_error") =>
            /\ response_container'[blob[s]] =
                   Json(response_data[s].id, batch_response[s].status)
            /\ result_container' = result_container
            /\ finalized_container' = finalized_container
            /\ fetches' = fetches
            /\ pc'[s] = NextPc(todo[s])
            /\ todo'[s] = todo[s]
            /\ \A i \in 1..Len(todo'[s]) : todo'[s][i] # blob[s]]_vars

\* A blob stored as validating was polled as in_progress: it now holds
\* in_progress, is still in the response container, and the sweep is past it.
C12_Witness ==
    \E s \in Sweeps :
        /\ JustProcessed(s, "pending")
        /\ batch_response[s].status = "in_progress"
        /\ response_container[blob[s]] = Json(response_data[s].id, "in_progress")
        /\ \A k \in FinalizedKeys : ~finalized_container[k].exists
        /\ result_container = {}

\* C13: when the blob the loop yields is read and parsed and has no batch
\* id, the step leaves the three containers as they are, issues no poll (the
\* sweep does not go to the retrieve calls) and takes the sweep to the next
\* listed blob.
C13_RecordWithoutIdIsSkipped ==
    [][\A s \in Sweeps :
         (/\ pc[s] = "download"
          /\ pc'[s] # pc[s] \/ todo'[s] # todo[s]
          /\ response_container[Head(todo[s])].json
          /\ response_container[Head(todo[s])].id = NoId
          /\ outcome'[s][Head(todo[s])] # "read_error") =>
            /\ UNCHANGED <<response_container, result_container,
                           finalized_container, batch_response>>
            /\ todo'[s] = Tail(todo[s])
            /\ pc'[s] = NextPc(Tail(todo[s]))]_vars

\* A sweep has skipped blob "a", which has no batch id and is still what it
\* was, and has gone on to poll blob "b", listed after it.
C13_Witness ==
    \E s \in Sweeps :
        /\ listing[s] = <<"a", "b">>
        /\ outcome[s]["a"] = "skipped"
        /\ response_container["a"] = Json(NoId, "validating")
        /\ pc[s] = "update"
        /\ blob[s] = "b"

\* C14: a transient error of a call to the compute service made for a blob
\* (here: files.content in save_batch_file) mutates nothing: when the sweep
\* is past the blob, the blob is still in the response container and the
\* sweep has written no archive entry for its job.
C14_TransientErrorMutatesNothing ==
    \A s \in Sweeps :
        (/\ pc[s] \in {"idle", "download"}
         /\ blob[s] # None
         /\ artifact[s] = "fetch_error") =>
            /\ response_container[blob[s]].exists
            /\ response_data[s].id \notin movedIn[no[s]]

\* C15: the steps for one blob are ordered poll, persist status, fetch and
\* save the file, archive write, source delete.  In every step:
\*   - the sweep gets to the status write only from the poll;
\*   - it gets to the archival (save_batch_file, move_to_finalized) only by
\*     the step that wrote the blob with the final status it polled;
\*   - a file is fetched or saved only in save_batch_file, the archive is
\*     written only in move_to_finalized, which never leads back to
\*     save_batch_file;
\*   - a blob leaves the response container only in a step that leaves its
\*     content in the archive;
\*   - when the status write raises, the containers are as they were and the
\*     sweep goes to the next blob.
C15_StepsInOrder ==
    [][/\ \A s \in Sweeps :
            /\ (pc'[s] = "update" /\ pc[s] # "update") => pc[s] = "retrieve"
            /\ (pc'[s] \in {"save", "move"} /\ pc[s] \notin {"save", "move"}) =>
                  /\ pc[s] = "update"
                  /\ IsFinalized(batch_response[s].status)
                  /\ response_container'[blob[s]] =
                         Json(response_data[s].id, batch_response[s].status)
            /\ (pc'[s] = "save" /\ pc[s] # "save") => pc[s] = "update"
            /\ (pc[s] = "update" /\ outcome'[s][blob[s]] = "update_error"
                                 /\ outcome[s][blob[s]] # "update_error") =>
                  /\ UNCHANGED durable
                  /\ pc'[s] = NextPc(todo[s])
       /\ (fetches' # fetches \/ result_container' # result_container) =>
             \E s \in Sweeps : pc[s] = "save" /\ pc'[s] = "move"
       /\ finalized_container' # finalized_container =>
             \E s \in Sweeps : pc[s] = "move" /\ pc'[s] # "move"
       /\ \A n \in BlobNames :
             (response_container[n].exists /\ ~response_container'[n].exists) =>
                 \E k \in FinalizedKeys :
                     finalized_container'[k] = response_container[n]]_vars

\* A sweep is past a completed blob whose every step succeeded: the output
\* file is saved, the record is under completed/ and gone from the response
\* container.
C15_Witness ==
    \E s \in Sweeps :
        /\ JustProcessed(s, "moved")
        /\ artifact[s] = "saved"
        /\ <<response_data[s].id, "output">> \in result_container
        /\ finalized_container[<<"completed", blob[s]>>] =
               Json(response_data[s].id, "completed")
        /\ ~response_container[blob[s]].exists

\* C16: a blob whose poll returned a terminal status that is none of
\* completed, failed, canceled (here: expired) and for which no call failed
\* has its record under others/ and is gone from the response container.
C16_UnmappedTerminalGoesToOthers ==
    \A s \in Sweeps :
        (/\ pc[s] \in {"idle", "download"}
         /\ blob[s] # None
         /\ outcome[s][blob[s]] \in {"pending", "moved"}
         /\ batch_response[s].status = "expired") =>
            /\ finalized_container[<<"others", blob[s]>>].id = response_data[s].id
            /\ response_container[blob[s]].id # response_data[s].id

\* C17: for a blob polled as failed without an error file id, save_batch_file
\* fetches and saves nothing and main goes on to the move; the move, when
\* its calls succeed, leaves the record under failed/ and deletes the blob.
C17_FailedWithoutErrorFileIsArchived ==
    [][\A s \in Sweeps :
         (/\ batch_response[s].status = "failed"
          /\ batch_response[s].error_file_id = None) =>
            /\ (pc[s] = "update" /\ pc'[s] # "update"
                                 /\ outcome'[s][blob[s]] # "update_error") =>
                  pc'[s] = "save"
            /\ (pc[s] = "save" /\ pc'[s] # "save") =>
                  /\ pc'[s] = "move"
                  /\ artifact'[s] = "no_file"
                  /\ UNCHANGED <<result_container, fetches, saves>>
            /\ (pc[s] = "move" /\ pc'[s] # "move"
                               /\ outcome'[s][blob[s]] = "moved") =>
                  /\ finalized_container'[<<"failed", blob[s]>>] =
                         response_container[blob[s]]
                  /\ ~response_container'[blob[s]].exists]_vars

\* A sweep is past a blob polled as failed without an error file: its record
\* is under failed/, the blob is gone, and no file was ever fetched or saved.
C17_Witness ==
    \E s \in Sweeps :
        /\ JustProcessed(s, "moved")
        /\ batch_response[s] = [status |-> "failed", output_file_id |-> None,
                                error_file_id |-> None]
        /\ artifact[s] = "no_file"
        /\ finalized_container[<<"failed", blob[s]>>] =
               Json(response_data[s].id, "failed")
        /\ ~response_container[blob[s]].exists
        /\ result_container = {}
        /\ \A k \in ResultKeys : fetches[k] = 0

\* C18: for a blob polled as canceled, the status write leads straight to the
\* move (save_batch_file is not called, nothing is fetched or saved); the
\* move, when its calls succeed, leaves the record under canceled/ and
\* deletes the blob.
C18_CanceledIsArchived ==
    [][\A s \in Sweeps :
         batch_response[s].status = "canceled" =>
            /\ (pc[s] = "update" /\ pc'[s] # "update"
                                 /\ outcome'[s][blob[s]] # "update_error") =>
                  /\ pc'[s] = "move"
                  /\ UNCHANGED <<result_container, fetches, saves>>
            /\ (pc[s] = "move" /\ pc'[s] # "move") =>
                  UNCHANGED <<result_container, fetches, saves>>
            /\ (pc[s] = "move" /\ pc'[s] # "move"
                               /\ outcome'[s][blob[s]] = "moved") =>
                  /\ finalized_container'[<<"canceled", blob[s]>>] =
                         response_container[blob[s]]
                  /\ ~response_container'[blob[s]].exists]_vars

\* A sweep is past a blob polled as canceled: its record is under canceled/,
\* the blob is gone, and no file was ever fetched or saved.
C18_Witness ==
    \E s \in Sweeps :
        /\ JustProcessed(s, "moved")
        /\ batch_response[s].status = "canceled"
        /\ artifact[s] = "none"
        /\ finalized_container[<<"canceled", blob[s]>>] =
               Json(response_data[s].id, "canceled")
        /\ ~response_container[blob[s]].exists
        /\ result_container = {}
        /\ \A k \in ResultKeys : fetches[k] = 0

\* C19: the sweep puts a blob only when the polled status differs from the
\* stored one.  A put that raised was a put: when the status write raised
\* for a blob, which therefore still holds what it held before, the polled
\* status is not the one the blob holds.
C19_PutOnlyOnStatusChange ==
    \A s \in Sweeps :
        (/\ JustProcessed(s, "update_error")
         /\ response_container[blob[s]].exists
         /\ response_container[blob[s]].id = response_data[s].id) =>
            response_container[blob[s]].status # batch_response[s].status

\* Job b has a record: in a blob of the response container, or written to
\* the archive at some time.
Recorded(b) ==
    \/ \E n \in BlobNames :
          response_container[n].exists /\ response_container[n].id = b
    \/ moves[b] > 0

\* C20: every job the submission step has created on the compute service has
\* a record in the response container until it is archived.
C20_InFlightJobHasRecord ==
    \A b \in BatchIds : remote[b] # NoResponse => Recorded(b)

\* A step puts a blob into the response container under a name that held
\* none, and it is not a submission: a status write of a sweep.
Recreates(n) ==
    /\ ~response_container[n].exists
    /\ response_container'[n].exists
    /\ nbatches' = nbatches

\* C21: a sweep's status write brings back a blob that is gone from the
\* response container only when invocations have overlapped; as long as every
\* invocation starts after the one before it has returned, no step does so.
C21_RaceOnlyWhenSweepsOverlap ==
    [][\A n \in BlobNames : Recreates(n) => overlapped]_vars

\* Two overlapping invocations both processed the record of job 1, the only
\* job ever submitted: the first archived it under completed and deleted
\* it, then the status write of the second put it back into the response
\* container, and the second fetched the output file again.
C21_Witness ==
    /\ overlapped
    /\ nbatches = 1
    /\ outcome["s1"]["a"] = "moved"
    /\ finalized_container[<<"completed", "a">>] = Json(1, "completed")
    /\ blob["s2"] = "a"
    /\ pc["s2"] = "move"
    /\ artifact["s2"] = "saved"
    /\ response_container["a"] = Json(1, "completed")
    /\ fetches[<<1, "output">>] = 2

\* The record of job b is kept: a blob of the response container or of the
\* archive holds it.
Kept(b) ==
    \/ \E n \in BlobNames :
          response_container[n].exists /\ response_container[n].id = b
    \/ \E k \in FinalizedKeys :
          finalized_container[k].exists /\ finalized_container[k].id = b

\* The step is a call of move_to_finalized returning.
MoveReturns == \E s \in Sweeps : pc[s] = "move" /\ pc'[s] # "move"

\* C22: move_to_finalized loses no record: a job whose record is in the
\* response container or in the archive when move_to_finalized is called
\* has its record in one of the two when the call has returned, however the
\* call ended.
C22_RelocationLosesNoRecord ==
    [][MoveReturns => \A b \in BatchIds : Kept(b) => Kept(b)']_vars

\* C23: every blob of the archive is in the folder named by the status its
\* content stores.
C23_ArchiveFolderIsStoredStatus ==
    \A k \in FinalizedKeys :
        finalized_container[k].exists => finalized_container[k].status = k[1]
====
